---- MODULE Spec2Model ----
(***************************************************************************)
(* sqlalchemy-pydantic-type: the two column-type decorators of             *)
(* src/src/sqlalchemy_pydantic_type/core.py, BasePydanticType and          *)
(* BaseTypeAdapterType, as a state machine over one codec instance.        *)
(*                                                                         *)
(* Python values are records tagged by their type in field t, so that a    *)
(* model instance, the dict it dumps to and the JSON text of that dict are *)
(* three different values.                                                 *)
(***************************************************************************)
EXTENDS Integers, Sequences, FiniteSets, TLC

VARIABLES
    args,          \* the serializer= and deserializer= arguments __init__ was given
    self,          \* the codec instance: the attributes __init__ assigns
    type_adapter,  \* BasePydanticType.type_adapter, the cached_property slot
    impl,          \* self.__class__.impl, the class-level storage descriptor
    op,            \* the last call made on the codec: name, argument, dialect
    result,        \* how that call ended: a returned value or a raised error
    calls,         \* the functions that call invoked, in order, with outcomes
    bound,         \* the value whose encoding the last call decoded, if it did
    built,         \* how many TypeAdapter objects the codec has constructed
    nextId,        \* identity of the next object a callable impl creates
    ref,           \* one earlier load_dialect_impl call, kept for comparison
    threads        \* the callers sharing the codec: where each one is in its call

vars ==
    <<args, self, type_adapter, impl, op, result, calls, bound, built, nextId, ref,
      threads>>

----------------------------------------------------------------------------
(* Bounds *)

\* longest list of Flag / Permission entries in a value
MaxLen == 2
\* number of objects a callable impl may create in one behaviour
MaxInst == 2
\* number of callers that share one codec instance
NThreads == 2

----------------------------------------------------------------------------
(* Python values *)

None == [t |-> "None"]
PyInt(n) == [t |-> "int", v |-> n]
PyFloat(n) == [t |-> "float", v |-> n]
PyStr(s) == [t |-> "str", v |-> s]
PyBool(b) == [t |-> "bool", v |-> b]
PyList(s) == [t |-> "list", v |-> s]
PyDict(r) == [t |-> "dict", v |-> r]
\* an instance of a BaseModel subclass or of a dataclass
PyObj(c, r) == [t |-> "obj", cls |-> c, v |-> r]
\* a str whose text is the JSON document of the primitive p
JsonStr(p) == [t |-> "jsonstr", v |-> p]
\* the return_value of a unittest Mock named n
MockValue(n) == [t |-> "mock", v |-> n]
\* a class object, such as UserMeta or sqlalchemy's JSON
PyType(n) == [t |-> "type", v |-> n]
\* an exception instance
Exc(c) == [t |-> "exc", v |-> c]
\* an attribute or variable that holds nothing yet
Unset == [t |-> "unset"]

\* how a call ends
Return(v) == [kind |-> "return", v |-> v]
Raise(e) == [kind |-> "raise", v |-> e]

IsNum(x) == x.t \in {"int", "float"}

\* Python's ==: int and float compare by number, a model or dataclass instance
\* by class and fields, containers element by element
RECURSIVE PyEq(_, _)
PyEq(a, b) ==
    IF IsNum(a) /\ IsNum(b) THEN a.v = b.v
    ELSE IF a.t # b.t THEN FALSE
    ELSE IF a.t = "None" THEN TRUE
    ELSE IF a.t = "list" THEN
        /\ Len(a.v) = Len(b.v)
        /\ \A i \in 1..Len(a.v) : PyEq(a.v[i], b.v[i])
    ELSE IF a.t = "dict" THEN
        /\ DOMAIN a.v = DOMAIN b.v
        /\ \A f \in DOMAIN a.v : PyEq(a.v[f], b.v[f])
    ELSE IF a.t = "obj" THEN
        /\ a.cls = b.cls
        /\ DOMAIN a.v = DOMAIN b.v
        /\ \A f \in DOMAIN a.v : PyEq(a.v[f], b.v[f])
    ELSE IF a.t = "jsonstr" THEN PyEq(a.v, b.v)
    ELSE a.v = b.v

----------------------------------------------------------------------------
(* The schemas of tests/conftest.py and examples/type-adapter/main.py *)

SInt == [s |-> "int"]
SFloat == [s |-> "float"]
SStr == [s |-> "str"]
SBool == [s |-> "bool"]
SList(item) == [s |-> "list", item |-> item]
\* s is "model" (BaseModel), "dataclass" or "typeddict"
SRecord(s, name, fields) == [s |-> s, name |-> name, fields |-> fields]

Flag == SRecord("model", "Flag", [name |-> SStr, enabled |-> SBool])
UserMeta == SRecord("model", "UserMeta", [flags |-> SList(Flag), login_count |-> SInt])
Permission == SRecord("dataclass", "Permission", [name |-> SStr, level |-> SInt])
UserSettings ==
    SRecord("dataclass", "UserSettings", [permissions |-> SList(Permission), theme |-> SStr])
Dimensions ==
    SRecord("typeddict", "Dimensions",
            [width |-> SFloat, height |-> SFloat, depth |-> SFloat, unit |-> SStr])

\* the first k entries of the list f1, f2, f1, ... of the tests
Flags(k) ==
    [i \in 1..k |->
        IF i % 2 = 1
        THEN PyObj("Flag", [name |-> PyStr("f1"), enabled |-> PyBool(TRUE)])
        ELSE PyObj("Flag", [name |-> PyStr("f2"), enabled |-> PyBool(FALSE)])]
UserMetaValues ==
    { PyObj("UserMeta", [flags |-> PyList(Flags(k)), login_count |-> PyInt(42)]) :
        k \in 0..MaxLen }
Permissions(k) ==
    [i \in 1..k |->
        IF i % 2 = 1
        THEN PyObj("Permission", [name |-> PyStr("admin"), level |-> PyInt(10)])
        ELSE PyObj("Permission", [name |-> PyStr("guest"), level |-> PyInt(0)])]
UserSettingsValues ==
    { PyObj("UserSettings", [permissions |-> PyList(Permissions(k)), theme |-> PyStr("dark")]) :
        k \in 0..MaxLen }
\* a TypedDict value is a plain dict; the example writes its floats as ints
DimensionsValues ==
    { PyDict([width |-> w, height |-> PyFloat(45), depth |-> PyInt(60), unit |-> PyStr("cm")]) :
        w \in {PyInt(120), PyFloat(80)} }

\* the values a caller may bind: the instances the schema accepts
ValidValues(schema) ==
    IF schema.name = "UserMeta" THEN UserMetaValues
    ELSE IF schema.name = "UserSettings" THEN UserSettingsValues
    ELSE DimensionsValues

----------------------------------------------------------------------------
(* pydantic, at the interface the codecs use *)

\* model_dump(mode="json") / TypeAdapter.dump_python(value, mode="json"):
\* instances become dicts, containers are dumped element by element, a scalar
\* is emitted as it is (an int held by a float field stays an int)
RECURSIVE DumpJsonable(_)
DumpJsonable(x) ==
    IF x.t = "obj" THEN PyDict([f \in DOMAIN x.v |-> DumpJsonable(x.v[f])])
    ELSE IF x.t = "dict" THEN PyDict([f \in DOMAIN x.v |-> DumpJsonable(x.v[f])])
    ELSE IF x.t = "list" THEN PyList([i \in 1..Len(x.v) |-> DumpJsonable(x.v[i])])
    ELSE x

\* model_dump_json() / dump_json(value).decode(): the JSON text of the dump
DumpJsonText(x) == JsonStr(DumpJsonable(x))

Invalid == [ok |-> FALSE]
Valid(v) == [ok |-> TRUE, v |-> v]

\* validation of x against a schema. python is TRUE for validate_python, which
\* also accepts an instance of the schema's own class, and FALSE for JSON input.
RECURSIVE Validate(_, _, _)
Validate(schema, x, python) ==
    IF schema.s = "int" THEN
        IF IsNum(x) THEN Valid(PyInt(x.v)) ELSE Invalid
    ELSE IF schema.s = "float" THEN
        IF IsNum(x) THEN Valid(PyFloat(x.v)) ELSE Invalid
    ELSE IF schema.s = "str" THEN
        IF x.t = "str" THEN Valid(x) ELSE Invalid
    ELSE IF schema.s = "bool" THEN
        IF x.t = "bool" THEN Valid(x) ELSE Invalid
    ELSE IF schema.s = "list" THEN
        IF x.t # "list" THEN Invalid
        ELSE LET items == [i \in 1..Len(x.v) |-> Validate(schema.item, x.v[i], python)]
             IN IF \A i \in 1..Len(x.v) : items[i].ok
                THEN Valid(PyList([i \in 1..Len(x.v) |-> items[i].v]))
                ELSE Invalid
    ELSE IF python /\ x.t = "obj" THEN
        IF schema.s # "typeddict" /\ x.cls = schema.name THEN Valid(x) ELSE Invalid
    ELSE IF x.t # "dict" THEN Invalid
    ELSE IF ~(DOMAIN schema.fields \subseteq DOMAIN x.v) THEN Invalid
    ELSE LET fs == [f \in DOMAIN schema.fields |->
                        Validate(schema.fields[f], x.v[f], python)]
         IN IF \E f \in DOMAIN fs : ~fs[f].ok THEN Invalid
            ELSE LET r == [f \in DOMAIN fs |-> fs[f].v]
                 IN IF schema.s = "typeddict" THEN Valid(PyDict(r))
                    ELSE Valid(PyObj(schema.name, r))

ValidationError == Exc("ValidationError")

\* TypeAdapter.validate_python(value)
validate_python(schema, x) ==
    LET r == Validate(schema, x, TRUE)
    IN IF r.ok THEN Return(r.v) ELSE Raise(ValidationError)

\* model_validate_json(value) / TypeAdapter.validate_json(value): the input
\* must be JSON text; anything else is rejected
validate_json(schema, x) ==
    IF x.t # "jsonstr" THEN Raise(ValidationError)
    ELSE LET r == Validate(schema, x.v, FALSE)
         IN IF r.ok THEN Return(r.v) ELSE Raise(ValidationError)

----------------------------------------------------------------------------
(* Functions, as values *)

\* the method `name` as defined in the body of class `owner`
Method(owner, name) == [t |-> "method", owner |-> owner, name |-> name]
\* unittest.mock.Mock(), as the tests pass for serializer= and deserializer=
Mock(n) == [t |-> "Mock", v |-> n]

\* the classes that define each hook: the two bases, and the String-backed
\* subclasses of tests/test_core.py, which override both hooks
Overrides(cls) ==
    IF cls = "PydanticString"
    THEN {"_default_model_serializer", "_default_model_deserializer"}
    ELSE IF cls = "TypeAdapterString"
    THEN {"_default_serializer", "_default_deserializer"}
    ELSE {}

\* as self.<name>, looked up on the base class only: a subclass's definition
\* is not seen
GetAttr_base_only(cls, base, name) == Method(base, name)

\* self.<name>: the subclass's definition if it has one, else the base's
GetAttr(cls, base, name) ==
    IF name \in Overrides(cls) THEN Method(cls, name) ELSE Method(base, name)

\* Python truth of a constructor argument: None is false, a function and a
\* Mock are true
Truthy(x) == x.t # "None"

\* a or b
Or(a, b) == IF Truthy(a) THEN a ELSE b

\* pydantic.TypeAdapter(type): a validator object; id tells two objects apart
TypeAdapter(schema, id) == [t |-> "TypeAdapter", v |-> schema, id |-> id]

\* a function of pydantic or SQLAlchemy, by name
Lib(n) == [t |-> "lib", v |-> n]

\* one entry of calls
Call(fn, arg, out) == [fn |-> fn, arg |-> arg, out |-> out]

\* what running a piece of code did: its outcome, the calls it made, and the
\* cached_property slot and construction count it leaves
Effect(out, cs, slot, n) == [out |-> out, calls |-> cs, slot |-> slot, built |-> n]

----------------------------------------------------------------------------
(* BasePydanticType *)

\* as __init__, with the operands of each `or` exchanged: the hook always wins
BasePydanticType_init_hook_first(cls, pydantic_model_type, serializer, deserializer) ==
    [ base |-> "BasePydanticType",
      cls |-> cls,
      _pydantic_model_type |-> pydantic_model_type,
      _model_serializer |->
          Or(GetAttr(cls, "BasePydanticType", "_default_model_serializer"), serializer),
      _model_deserializer |->
          Or(GetAttr(cls, "BasePydanticType", "_default_model_deserializer"), deserializer) ]

BasePydanticType_init(cls, pydantic_model_type, serializer, deserializer) ==
    [ base |-> "BasePydanticType",
      cls |-> cls,
      _pydantic_model_type |-> pydantic_model_type,
      _model_serializer |->
          Or(serializer, GetAttr(cls, "BasePydanticType", "_default_model_serializer")),
      _model_deserializer |->
          Or(deserializer, GetAttr(cls, "BasePydanticType", "_default_model_deserializer")) ]

\* as type_adapter, with a build that depends on the builds before it: only
\* the first validator built is one for the model type
BasePydanticType_type_adapter_first_build_only(s, slot, n) ==
    IF slot = Unset
    THEN LET ta == TypeAdapter(IF n = 0 THEN s._pydantic_model_type ELSE Flag, n + 1)
         IN Effect(Return(ta), <<Call(Lib("TypeAdapter"), PyType(s._pydantic_model_type.name), Return(ta))>>,
                   ta, n + 1)
    ELSE Effect(Return(slot), <<>>, slot, n)

\* as type_adapter under a plain property: every read builds a validator
BasePydanticType_type_adapter_uncached(s, slot, n) ==
    LET ta == TypeAdapter(s._pydantic_model_type, n + 1)
    IN Effect(Return(ta), <<Call(Lib("TypeAdapter"), PyType(s._pydantic_model_type.name), Return(ta))>>,
              ta, IF n < MaxInst THEN n + 1 ELSE n)

\* @cached_property type_adapter: built on the first access, kept in the slot
BasePydanticType_type_adapter(s, slot, n) ==
    IF slot = Unset
    THEN LET ta == TypeAdapter(s._pydantic_model_type, n + 1)
         IN Effect(Return(ta), <<Call(Lib("TypeAdapter"), PyType(s._pydantic_model_type.name), Return(ta))>>,
                   ta, n + 1)
    ELSE Effect(Return(slot), <<>>, slot, n)

\* as _default_model_serializer, dumping the top level only (dict(model)):
\* the fields keep the instances they hold
BasePydanticType_default_model_serializer_shallow(s, slot, n, model) ==
    LET out == Return(PyDict(model.v))
    IN Effect(out, <<Call(Lib("model_dump"), model, out)>>, slot, n)

BasePydanticType_default_model_serializer(s, slot, n, model) ==
    LET out == Return(DumpJsonable(model))
    IN Effect(out, <<Call(Lib("model_dump"), model, out)>>, slot, n)

\* as _default_model_deserializer, handing the primitive back unvalidated
BasePydanticType_default_model_deserializer_raw(s, slot, n, value) ==
    Effect(Return(value), <<>>, slot, n)

BasePydanticType_default_model_deserializer(s, slot, n, value) ==
    LET ta == BasePydanticType_type_adapter(s, slot, n)
        out == validate_python(ta.out.v.v, value)
    IN Effect(out, ta.calls \o <<Call(Lib("validate_python"), value, out)>>, ta.slot, ta.built)

\* tests/test_core.py, class PydanticString
PydanticString_default_model_serializer(s, slot, n, model) ==
    LET out == Return(DumpJsonText(model))
    IN Effect(out, <<Call(Lib("model_dump_json"), model, out)>>, slot, n)

PydanticString_default_model_deserializer(s, slot, n, value) ==
    LET out == validate_json(s._pydantic_model_type, value)
    IN Effect(out, <<Call(Lib("model_validate_json"), value, out)>>, slot, n)

----------------------------------------------------------------------------
(* BaseTypeAdapterType *)

BaseTypeAdapterType_init(cls, adapter, serializer, deserializer) ==
    [ base |-> "BaseTypeAdapterType",
      cls |-> cls,
      _type_adapter |-> adapter,
      _serializer |->
          Or(serializer, GetAttr(cls, "BaseTypeAdapterType", "_default_serializer")),
      _deserializer |->
          Or(deserializer, GetAttr(cls, "BaseTypeAdapterType", "_default_deserializer")) ]

\* as type_adapter, wrapping the adapted type anew: another object than the
\* one __init__ was given
BaseTypeAdapterType_type_adapter_rebuilt(s, slot, n) ==
    Effect(Return(TypeAdapter(s._type_adapter.v, 1)), <<>>, slot, n)

\* @property type_adapter
BaseTypeAdapterType_type_adapter(s, slot, n) ==
    Effect(Return(s._type_adapter), <<>>, slot, n)

BaseTypeAdapterType_default_serializer(s, slot, n, value) ==
    LET out == Return(DumpJsonable(value))
    IN Effect(out, <<Call(Lib("dump_python"), value, out)>>, slot, n)

\* as _default_deserializer, handing the primitive back unvalidated
BaseTypeAdapterType_default_deserializer_raw(s, slot, n, value) ==
    Effect(Return(value), <<>>, slot, n)

BaseTypeAdapterType_default_deserializer(s, slot, n, value) ==
    LET out == validate_python(s._type_adapter.v, value)
    IN Effect(out, <<Call(Lib("validate_python"), value, out)>>, slot, n)

\* tests/test_core.py, class TypeAdapterString
TypeAdapterString_default_serializer(s, slot, n, value) ==
    LET out == Return(DumpJsonText(value))
    IN Effect(out, <<Call(Lib("dump_json"), value, out)>>, slot, n)

TypeAdapterString_default_deserializer(s, slot, n, value) ==
    LET out == validate_json(s._type_adapter.v, value)
    IN Effect(out, <<Call(Lib("validate_json"), value, out)>>, slot, n)

----------------------------------------------------------------------------
(* Calling a function value *)

\* a Mock returns its return_value, whatever it is given
Mock_call(f, value) == Return(MockValue(f.v))

\* f(value), for the function held in a serializer or deserializer attribute.
\* The call itself is logged first, then what the function's body called.
Invoke(f, s, slot, n, value) ==
    LET body ==
            IF f.t = "Mock" THEN Effect(Mock_call(f, value), <<>>, slot, n)
            ELSE IF f.owner = "BasePydanticType" THEN
                IF f.name = "_default_model_serializer"
                THEN BasePydanticType_default_model_serializer(s, slot, n, value)
                ELSE BasePydanticType_default_model_deserializer(s, slot, n, value)
            ELSE IF f.owner = "PydanticString" THEN
                IF f.name = "_default_model_serializer"
                THEN PydanticString_default_model_serializer(s, slot, n, value)
                ELSE PydanticString_default_model_deserializer(s, slot, n, value)
            ELSE IF f.owner = "BaseTypeAdapterType" THEN
                IF f.name = "_default_serializer"
                THEN BaseTypeAdapterType_default_serializer(s, slot, n, value)
                ELSE BaseTypeAdapterType_default_deserializer(s, slot, n, value)
            ELSE
                IF f.name = "_default_serializer"
                THEN TypeAdapterString_default_serializer(s, slot, n, value)
                ELSE TypeAdapterString_default_deserializer(s, slot, n, value)
    IN Effect(body.out, <<Call(f, value, body.out)>> \o body.calls, body.slot, body.built)

----------------------------------------------------------------------------
(* The bind and result paths *)

\* as process_bind_param, without the test for None
BasePydanticType_process_bind_param_no_guard(s, slot, n, value, dialect) ==
    Invoke(s._model_serializer, s, slot, n, value)

BasePydanticType_process_bind_param(s, slot, n, value, dialect) ==
    IF value = None THEN Effect(Return(None), <<>>, slot, n)
    ELSE Invoke(s._model_serializer, s, slot, n, value)

\* as process_result_value, without the test for None
BasePydanticType_process_result_value_no_guard(s, slot, n, value, dialect) ==
    Invoke(s._model_deserializer, s, slot, n, value)

BasePydanticType_process_result_value(s, slot, n, value, dialect) ==
    IF value = None THEN Effect(Return(None), <<>>, slot, n)
    ELSE Invoke(s._model_deserializer, s, slot, n, value)

BaseTypeAdapterType_process_bind_param(s, slot, n, value, dialect) ==
    IF value = None THEN Effect(Return(None), <<>>, slot, n)
    ELSE Invoke(s._serializer, s, slot, n, value)

\* as process_result_value, with the deserializer's error caught and None
\* returned in its place
BaseTypeAdapterType_process_result_value_swallow(s, slot, n, value, dialect) ==
    IF value = None THEN Effect(Return(None), <<>>, slot, n)
    ELSE LET e == Invoke(s._deserializer, s, slot, n, value)
         IN IF e.out.kind = "raise" THEN Effect(Return(None), e.calls, e.slot, e.built)
            ELSE e

BaseTypeAdapterType_process_result_value(s, slot, n, value, dialect) ==
    IF value = None THEN Effect(Return(None), <<>>, slot, n)
    ELSE Invoke(s._deserializer, s, slot, n, value)

----------------------------------------------------------------------------
(* Storage descriptors and dialects *)

\* an instance of the column type n; id tells two instances apart
Engine(n, id) == [t |-> "engine", v |-> n, id |-> id]
\* a real dialect, by name
Dialect(n) == [t |-> "dialect", v |-> n]

\* Python's callable(): a class and a Mock are, a column type instance is not
callable(x) == x.t \in {"type", "Mock", "method"}

\* x(): a class makes a new instance, a Mock returns its return_value
Instantiate(x, id) ==
    IF x.t = "type" THEN Engine(x.v, id) ELSE MockValue(x.v)

\* the dialect's colspecs: the dialect's own type for the generic type n, or
\* n itself when the dialect has none
Colspecs(d, n) ==
    IF d.v = "postgresql" /\ n \in {"JSON", "mysql.JSON"} THEN "postgresql.JSON" ELSE n

\* Dialect.type_descriptor(typeobj): typeobj adapted to the dialect's own
\* variant of its type, or typeobj itself when the dialect has none; a
\* Mock(spec=Dialect) returns its type_descriptor.return_value
type_descriptor(d, typeobj) ==
    IF d.t = "Mock" THEN MockValue("type_descriptor")
    ELSE IF typeobj.t = "engine" /\ Colspecs(d, typeobj.v) # typeobj.v
    THEN Engine(Colspecs(d, typeobj.v), typeobj.id)
    ELSE typeobj

\* the concrete column type of a resolved descriptor, whichever instance it is
ConcreteType(x) == [t |-> x.t, v |-> x.v]

\* what load_dialect_impl did: outcome, calls, and the next free identity
Loaded(out, cs, id) == [out |-> out, calls |-> cs, nextId |-> id]

\* as load_dialect_impl, returning the instance of impl as made: the dialect
\* does not resolve it
BasePydanticType_load_dialect_impl_unresolved(s, classImpl, id, dialect) ==
    LET made == callable(classImpl)
        arg == IF made THEN Instantiate(classImpl, id) ELSE classImpl
    IN Loaded(Return(arg),
              IF made THEN <<Call(classImpl, None, Return(arg))>> ELSE <<>>,
              IF made /\ classImpl.t = "type" THEN id + 1 ELSE id)

\* as load_dialect_impl, instantiating only a class (isinstance(impl, type)
\* in place of callable(impl))
BasePydanticType_load_dialect_impl_classes_only(s, classImpl, id, dialect) ==
    LET made == classImpl.t = "type"
        arg == IF made THEN Instantiate(classImpl, id) ELSE classImpl
        out == Return(type_descriptor(dialect, arg))
    IN Loaded(out,
              (IF made THEN <<Call(classImpl, None, Return(arg))>> ELSE <<>>)
                  \o <<Call(Lib("type_descriptor"), arg, out)>>,
              IF made THEN id + 1 ELSE id)

BasePydanticType_load_dialect_impl(s, classImpl, id, dialect) ==
    LET made == callable(classImpl)
        arg == IF made THEN Instantiate(classImpl, id) ELSE classImpl
        out == Return(type_descriptor(dialect, arg))
    IN Loaded(out,
              (IF made THEN <<Call(classImpl, None, Return(arg))>> ELSE <<>>)
                  \o <<Call(Lib("type_descriptor"), arg, out)>>,
              IF made /\ classImpl.t = "type" THEN id + 1 ELSE id)

\* as load_dialect_impl, returning the descriptor itself: the dialect is not
\* asked
BaseTypeAdapterType_load_dialect_impl_direct(s, classImpl, id, dialect) ==
    LET made == callable(classImpl)
        arg == IF made THEN Instantiate(classImpl, id) ELSE classImpl
    IN Loaded(Return(arg),
              IF made THEN <<Call(classImpl, None, Return(arg))>> ELSE <<>>,
              IF made /\ classImpl.t = "type" THEN id + 1 ELSE id)

\* as load_dialect_impl, going through the dialect for the first object made
\* only: a later instantiation is returned as made
BaseTypeAdapterType_load_dialect_impl_first_only(s, classImpl, id, dialect) ==
    LET made == callable(classImpl)
        arg == IF made THEN Instantiate(classImpl, id) ELSE classImpl
        out == Return(IF id > 1 THEN arg ELSE type_descriptor(dialect, arg))
    IN Loaded(out,
              (IF made THEN <<Call(classImpl, None, Return(arg))>> ELSE <<>>)
                  \o <<Call(Lib("type_descriptor"), arg, out)>>,
              IF made /\ classImpl.t = "type" THEN id + 1 ELSE id)

BaseTypeAdapterType_load_dialect_impl(s, classImpl, id, dialect) ==
    LET made == callable(classImpl)
        arg == IF made THEN Instantiate(classImpl, id) ELSE classImpl
        out == Return(type_descriptor(dialect, arg))
    IN Loaded(out,
              (IF made THEN <<Call(classImpl, None, Return(arg))>> ELSE <<>>)
                  \o <<Call(Lib("type_descriptor"), arg, out)>>,
              IF made /\ classImpl.t = "type" THEN id + 1 ELSE id)

----------------------------------------------------------------------------
(* Inputs *)

Dialects == {Dialect("postgresql"), Mock("dialect")}

\* the impl each codec class declares in its body
ClassImpl(cls) ==
    IF cls \in {"PydanticJSON", "TypeAdapterJSON"} THEN PyType("JSON")
    ELSE IF cls = "PydanticJSONB" THEN PyType("postgresql.JSONB")
    ELSE IF cls = "PydanticMySQLJSON" THEN PyType("mysql.JSON")
    ELSE PyType("String")

\* what a class-level impl may be replaced by: a column type instance, or the
\* Mock of test_load_dialect_impl
ImplChoices == {Engine("JSON", 0), Mock("type_engine")}

SerializerArgs == {None, Mock("serializer")}
DeserializerArgs == {None, Mock("deserializer")}

\* the codecs the tests and examples construct, given the two arguments
Codecs(ser, de) ==
    { BasePydanticType_init(cls, UserMeta, ser, de) :
        cls \in {"PydanticJSON", "PydanticString"} }
    \cup
    { BaseTypeAdapterType_init("TypeAdapterJSON", TypeAdapter(schema, 0), ser, de) :
        schema \in {UserSettings, Dimensions, UserMeta} }
    \cup
    { BaseTypeAdapterType_init("TypeAdapterString", TypeAdapter(UserSettings, 0), ser, de) }

\* the type the codec wraps
SchemaOf(s) ==
    IF s.base = "BasePydanticType" THEN s._pydantic_model_type ELSE s._type_adapter.v

\* primitives a database row may hold that no bind of this codec produced
Primitives(schema) ==
    { None,
      PyStr("garbage"),
      PyDict([login_count |-> PyStr("many")]),
      JsonStr(PyDict([theme |-> PyInt(1)])),
      DumpJsonable(CHOOSE v \in ValidValues(schema) : TRUE),
      DumpJsonText(CHOOSE v \in ValidValues(schema) : TRUE) }

----------------------------------------------------------------------------
(* The state machine *)

Op(name, arg, dialect) == [name |-> name, arg |-> arg, dialect |-> dialect]

Threads == 1..NThreads
\* a caller that is not inside a call
Idle == [pc |-> "idle", name |-> "", arg |-> None, val |-> Unset, out |-> Unset]

Init ==
    /\ args \in [serializer : SerializerArgs, deserializer : DeserializerArgs]
    /\ self \in Codecs(args.serializer, args.deserializer)
    /\ type_adapter = Unset
    /\ impl = ClassImpl(self.cls)
    /\ op = Op("__init__", None, None)
    /\ result = Return(None)
    /\ calls = <<>>
    /\ bound = Unset
    /\ built = 0
    /\ nextId = 1
    /\ ref = Unset
    /\ threads = [t \in Threads |-> Idle]

\* process_bind_param(value, dialect)
ProcessBindParam(value, dialect) ==
    LET e == IF self.base = "BasePydanticType"
             THEN BasePydanticType_process_bind_param(self, type_adapter, built, value, dialect)
             ELSE BaseTypeAdapterType_process_bind_param(self, type_adapter, built, value, dialect)
    IN /\ op' = Op("process_bind_param", value, dialect)
       /\ result' = e.out
       /\ calls' = e.calls
       /\ type_adapter' = e.slot
       /\ built' = e.built
       /\ bound' = Unset
       /\ UNCHANGED <<threads, args, self, impl, nextId, ref>>

\* the effect of process_result_value(value, dialect) on the state
ResultValue(name, value, dialect, from) ==
    LET e == IF self.base = "BasePydanticType"
             THEN BasePydanticType_process_result_value(self, type_adapter, built, value, dialect)
             ELSE BaseTypeAdapterType_process_result_value(self, type_adapter, built, value, dialect)
    IN /\ op' = Op(name, value, dialect)
       /\ result' = e.out
       /\ calls' = e.calls
       /\ type_adapter' = e.slot
       /\ built' = e.built
       /\ bound' = from
       /\ UNCHANGED <<threads, args, self, impl, nextId, ref>>

\* the database hands back what process_bind_param just gave it:
\* process_result_value on that primitive, for the same dialect
Fetch ==
    /\ op.name = "process_bind_param"
    /\ result.kind = "return"
    /\ ResultValue("fetch", result.v, op.dialect, op.arg)

\* process_result_value on a primitive from elsewhere
ProcessResultValue(value, dialect) ==
    ResultValue("process_result_value", value, dialect, Unset)

\* the type_adapter attribute is read
GetTypeAdapter ==
    LET e == IF self.base = "BasePydanticType"
             THEN BasePydanticType_type_adapter(self, type_adapter, built)
             ELSE BaseTypeAdapterType_type_adapter(self, type_adapter, built)
    IN /\ op' = Op("type_adapter", None, None)
       /\ result' = e.out
       /\ calls' = e.calls
       /\ type_adapter' = e.slot
       /\ built' = e.built
       /\ bound' = Unset
       /\ UNCHANGED <<threads, args, self, impl, nextId, ref>>

\* load_dialect_impl(dialect); keep tells whether this call becomes the one
\* later calls are compared with
LoadDialectImpl(dialect, keep) ==
    LET e == IF self.base = "BasePydanticType"
             THEN BasePydanticType_load_dialect_impl(self, impl, nextId, dialect)
             ELSE BaseTypeAdapterType_load_dialect_impl(self, impl, nextId, dialect)
    IN /\ e.nextId <= MaxInst + 1
       /\ op' = Op("load_dialect_impl", None, dialect)
       /\ result' = e.out
       /\ calls' = e.calls
       /\ nextId' = e.nextId
       /\ ref' = IF keep
                 THEN [dialect |-> dialect, impl |-> impl, type |-> ConcreteType(e.out.v)]
                 ELSE ref
       /\ bound' = Unset
       /\ UNCHANGED <<threads, args, self, type_adapter, impl, built>>

\* the class attribute impl is assigned, as tests/test_core.py does
SetImpl(new) ==
    /\ new # impl
    /\ impl' = new
    /\ op' = Op("set_impl", new, None)
    /\ result' = Return(None)
    /\ calls' = <<>>
    /\ bound' = Unset
    /\ UNCHANGED <<threads, args, self, type_adapter, built, nextId, ref>>

Next ==
    \/ \E v \in ValidValues(SchemaOf(self)) \cup {None}, d \in Dialects :
           ProcessBindParam(v, d)
    \/ Fetch
    \/ \E p \in Primitives(SchemaOf(self)), d \in Dialects : ProcessResultValue(p, d)
    \/ GetTypeAdapter
    \/ \E d \in Dialects, keep \in BOOLEAN : LoadDialectImpl(d, keep)
    \/ \E i \in ImplChoices : SetImpl(i)

Spec == Init /\ [][Next]_vars

----------------------------------------------------------------------------
(* The rendering hook for alembic's autogenerate *)

\* what a render_item hook returns for an item it leaves to alembic
NotHandled == PyBool(FALSE)

\* a codec instance, as the object a hook is handed
Codec(s) == [t |-> "codec", v |-> s.cls]

\* alembic's own rendering of a column type: the type's module prefix, its
\* name and its arguments
repr_type(typeobj) ==
    IF typeobj.t # "engine" THEN PyStr("<Mock>")
    ELSE IF typeobj.v = "postgresql.JSONB" THEN PyStr("postgresql.JSONB(astext_type=Text())")
    ELSE IF typeobj.v = "postgresql.JSON" THEN PyStr("postgresql.JSON(astext_type=Text())")
    ELSE IF typeobj.v = "mysql.JSON" THEN PyStr("mysql.JSON()")
    ELSE IF typeobj.v = "String" THEN PyStr("sa.String()")
    ELSE PyStr("sa.JSON()")

\* as render_item, without the test that obj is a codec: every "type" item is
\* rendered
render_item_any_type(type_, obj, s, classImpl, id, dialect) ==
    IF type_ = "type"
    THEN LET out == Return(repr_type(obj))
         IN Loaded(out, <<Call(Lib("_repr_type"), obj, out)>>, id)
    ELSE Loaded(Return(NotHandled), <<>>, id)

\* render_item(type_, obj, autogen_context): a codec met as a "type" item is
\* resolved for the context's dialect and rendered as alembic renders the
\* resolved type; anything else is not handled
render_item(type_, obj, s, classImpl, id, dialect) ==
    IF type_ = "type" /\ obj.t = "codec"
    THEN LET e == IF s.base = "BasePydanticType"
                  THEN BasePydanticType_load_dialect_impl(s, classImpl, id, dialect)
                  ELSE BaseTypeAdapterType_load_dialect_impl(s, classImpl, id, dialect)
             out == Return(repr_type(e.out.v))
         IN Loaded(out, e.calls \o <<Call(Lib("_repr_type"), e.out.v, out)>>, e.nextId)
    ELSE Loaded(Return(NotHandled), <<>>, id)

\* the dialects of the migration contexts
RenderDialects == {Dialect("default"), Dialect("postgresql")}
\* the kinds of item alembic asks a hook about
RenderKinds == {"type", "server_default"}
\* what the hook is handed: the codec, a plain column type, a default's text
RenderCandidates == {Codec(self), Engine("String", 0), PyStr("now()")}

\* the codec classes of tests/test_alembic.py
AlembicCodecs ==
    { BasePydanticType_init(cls, UserMeta, None, None) :
        cls \in {"PydanticJSONB", "PydanticMySQLJSON", "PydanticString"} }

InitRender ==
    /\ args = [serializer |-> None, deserializer |-> None]
    /\ self \in AlembicCodecs \cup Codecs(None, None)
    /\ type_adapter = Unset
    /\ impl = ClassImpl(self.cls)
    /\ op = Op("__init__", None, None)
    /\ result = Return(None)
    /\ calls = <<>>
    /\ bound = Unset
    /\ built = 0
    /\ nextId = 1
    /\ ref = Unset
    /\ threads = [t \in Threads |-> Idle]

\* alembic calls the hook
RenderItem(type_, obj, dialect) ==
    LET e == render_item(type_, obj, self, impl, nextId, dialect)
    IN /\ e.nextId <= MaxInst + 1
       /\ op' = [name |-> "render_item", arg |-> obj, dialect |-> dialect, kind |-> type_]
       /\ result' = e.out
       /\ calls' = e.calls
       /\ nextId' = e.nextId
       /\ bound' = Unset
       /\ UNCHANGED <<threads, args, self, type_adapter, impl, built, ref>>

NextRender ==
    \/ \E k \in RenderKinds, c \in RenderCandidates, d \in RenderDialects :
           RenderItem(k, c, d)
    \/ \E i \in ImplChoices : SetImpl(i)

SpecRender == InitRender /\ [][NextRender]_vars

----------------------------------------------------------------------------
(* Several callers on one model codec: the steps of a call that reaches the
   cached_property, which takes no lock *)

\* the hook the codec decodes with reads self.type_adapter
ReadsTypeAdapter(s) ==
    s._model_deserializer = Method("BasePydanticType", "_default_model_deserializer")

\* what the callers decode: None, text no schema accepts, one valid dump
RaceValues ==
    {None, PyStr("garbage"), DumpJsonable(CHOOSE v \in ValidValues(UserMeta) : TRUE)}

InitRace ==
    /\ args = [serializer |-> None, deserializer |-> None]
    /\ self \in { BasePydanticType_init(cls, UserMeta, None, None) :
                    cls \in {"PydanticJSON", "PydanticString"} }
    /\ type_adapter = Unset
    /\ impl = ClassImpl(self.cls)
    /\ op = Op("__init__", None, None)
    /\ result = Return(None)
    /\ calls = <<>>
    /\ bound = Unset
    /\ built = 0
    /\ nextId = 1
    /\ ref = Unset
    /\ threads = [t \in Threads |-> Idle]

\* caller t reads self.type_adapter: the next step is the cache lookup
BeginTypeAdapter(t) ==
    /\ threads[t].pc = "idle"
    /\ threads' = [threads EXCEPT ![t] = [Idle EXCEPT !.pc = "get", !.name = "type_adapter"]]
    /\ UNCHANGED <<args, self, type_adapter, impl, op, result, calls, bound, built, nextId, ref>>

\* caller t enters process_result_value(value, dialect): None is returned at
\* once, a hook that does not read type_adapter runs to its end, the base
\* default hook goes on to read self.type_adapter
BeginDecode(t, value) ==
    /\ threads[t].pc = "idle"
    /\ LET call == [Idle EXCEPT !.name = "process_result_value", !.arg = value]
       IN threads' = [threads EXCEPT ![t] =
            IF value = None \/ ~ReadsTypeAdapter(self)
            THEN [call EXCEPT !.pc = "done",
                     !.out = BasePydanticType_process_result_value(
                                 self, type_adapter, built, value, None).out]
            ELSE [call EXCEPT !.pc = "get"]]
    /\ UNCHANGED <<args, self, type_adapter, impl, op, result, calls, bound, built, nextId, ref>>

\* cached_property.__get__: look the attribute up in the instance's __dict__
Lookup(t) ==
    /\ threads[t].pc = "get"
    /\ threads' = [threads EXCEPT ![t] =
            IF type_adapter = Unset THEN [@ EXCEPT !.pc = "build"]
            ELSE [@ EXCEPT !.pc = "use", !.val = type_adapter]]
    /\ UNCHANGED <<args, self, type_adapter, impl, op, result, calls, bound, built, nextId, ref>>

\* the lookup missed: the decorated function builds a validator
Build(t) ==
    /\ threads[t].pc = "build"
    /\ LET e == BasePydanticType_type_adapter(self, Unset, built)
       IN /\ threads' = [threads EXCEPT ![t] = [@ EXCEPT !.pc = "store", !.val = e.slot]]
          /\ built' = e.built
    /\ UNCHANGED <<args, self, type_adapter, impl, op, result, calls, bound, nextId, ref>>

\* the validator built is stored in the instance's __dict__, over whatever
\* another caller stored meanwhile
Store(t) ==
    /\ threads[t].pc = "store"
    /\ type_adapter' = threads[t].val
    /\ threads' = [threads EXCEPT ![t] = [@ EXCEPT !.pc = "use"]]
    /\ UNCHANGED <<args, self, impl, op, result, calls, bound, built, nextId, ref>>

\* caller t has its validator: the read returns it, the decode validates with it
Use(t) ==
    /\ threads[t].pc = "use"
    /\ threads' = [threads EXCEPT ![t] = [@ EXCEPT !.pc = "done", !.out =
            IF threads[t].name = "type_adapter" THEN Return(threads[t].val)
            ELSE BasePydanticType_default_model_deserializer(
                     self, threads[t].val, built, threads[t].arg).out]]
    /\ UNCHANGED <<args, self, type_adapter, impl, op, result, calls, bound, built, nextId, ref>>

\* caller t is back from its call and may make another
Finish(t) ==
    /\ threads[t].pc = "done"
    /\ threads' = [threads EXCEPT ![t] = Idle]
    /\ UNCHANGED <<args, self, type_adapter, impl, op, result, calls, bound, built, nextId, ref>>

NextRace ==
    \/ \E t \in Threads : BeginTypeAdapter(t)
    \/ \E t \in Threads, v \in RaceValues : BeginDecode(t, v)
    \/ \E t \in Threads : Lookup(t)
    \/ \E t \in Threads : Build(t)
    \/ \E t \in Threads : Store(t)
    \/ \E t \in Threads : Use(t)
    \/ \E t \in Threads : Finish(t)

SpecRace == InitRace /\ [][NextRace]_vars

----------------------------------------------------------------------------
(* Properties *)

IsModelCodec == self.base = "BasePydanticType"
IsAdapterCodec == self.base = "BaseTypeAdapterType"
\* the function the codec serializes and deserializes with
Serializer == IF IsModelCodec THEN self._model_serializer ELSE self._serializer
Deserializer == IF IsModelCodec THEN self._model_deserializer ELSE self._deserializer
\* __init__ was given neither serializer= nor deserializer=
NoOverrides == args.serializer = None /\ args.deserializer = None
\* the last call was process_result_value
Decoded == op.name \in {"process_result_value", "fetch"}

\* UserMeta(flags=[Flag("f1", True), Flag("f2", False)], login_count=42)
ExampleMeta == PyObj("UserMeta", [flags |-> PyList(Flags(2)), login_count |-> PyInt(42)])

\* C1: a model codec constructed without overrides decodes what it encoded
\* to a value equal to the one encoded, for every valid instance and dialect.
C1_RoundTripModel ==
    (op.name = "fetch" /\ IsModelCodec /\ NoOverrides /\ bound # None)
        => (result.kind = "return" /\ PyEq(result.v, bound))

C1_Witness ==
    /\ op.name = "fetch"
    /\ IsModelCodec /\ NoOverrides /\ self.cls = "PydanticJSON"
    /\ op.dialect = Dialect("postgresql")
    /\ bound = ExampleMeta
    /\ op.arg = DumpJsonable(ExampleMeta)
    /\ result = Return(ExampleMeta)

\* C2: process_bind_param(None, d) returns None and calls nothing, whichever
\* codec, dialect and serializer.
C2_BindNone ==
    (op.name = "process_bind_param" /\ op.arg = None)
        => (result = Return(None) /\ calls = <<>>)

C2_Witness ==
    /\ op.name = "process_bind_param" /\ op.arg = None
    /\ IsModelCodec /\ Serializer = Mock("serializer")
    /\ result = Return(None)

\* C3: a step that is process_result_value(None, d) returns None, calls no
\* deserializer and no validator, and leaves the validator cache as it was.
C3_ResultNone ==
    [][ (op'.name \in {"process_result_value", "fetch"} /\ op'.arg = None)
            => /\ result' = Return(None)
               /\ calls' = <<>>
               /\ type_adapter' = type_adapter
               /\ built' = built ]_vars

C3_Witness ==
    /\ op.name = "process_result_value" /\ op.arg = None
    /\ IsModelCodec /\ args.deserializer = None /\ self.cls = "PydanticJSON"
    /\ type_adapter = Unset
    /\ result = Return(None)

\* C4: when __init__ is given serializer= (deserializer=), every bind
\* (decode) of a value other than None makes exactly one call, to the
\* function given, and returns what it returned; no default hook is called.
C4_CustomOverride ==
    /\ (op.name = "process_bind_param" /\ op.arg # None /\ args.serializer # None)
           => calls = <<Call(args.serializer, op.arg, result)>>
    /\ (Decoded /\ op.arg # None /\ args.deserializer # None)
           => calls = <<Call(args.deserializer, op.arg, result)>>

C4_Witness ==
    /\ op.name = "process_bind_param" /\ op.arg = ExampleMeta
    /\ IsModelCodec /\ args.serializer = Mock("serializer")
    /\ result = Return(MockValue("serializer"))

\* C5: when the deserializer raises on a primitive other than None,
\* process_result_value raises that very error.
C5_DecodeErrorPropagates ==
    (Decoded /\ calls # <<>> /\ calls[1].out.kind = "raise")
        => (calls[1].fn = Deserializer /\ result = calls[1].out)

C5_Witness ==
    /\ op.name = "process_result_value" /\ op.arg = PyStr("garbage")
    /\ IsAdapterCodec /\ args.deserializer = None
    /\ calls[1].out = Raise(ValidationError)
    /\ result = Raise(ValidationError)

\* C6: an adapter codec constructed without overrides decodes what it encoded
\* to a value equal to the one encoded, for every valid value and dialect.
C6_RoundTripAdapter ==
    (op.name = "fetch" /\ IsAdapterCodec /\ NoOverrides /\ bound # None)
        => (result.kind = "return" /\ PyEq(result.v, bound))

\* the TypedDict of the example, its width written as the int 120, comes back
\* with the float 120.0, which Python holds equal
C6_Witness ==
    /\ op.name = "fetch"
    /\ IsAdapterCodec /\ NoOverrides /\ self.cls = "TypeAdapterJSON"
    /\ SchemaOf(self).name = "Dimensions"
    /\ bound # None
    /\ bound.v.width = PyInt(120)
    /\ result.kind = "return"
    /\ result.v.v.width = PyFloat(120)
    /\ PyEq(result.v, bound)

\* nested dicts and lists of plain scalars, and nothing else
RECURSIVE JsonCompatible(_)
JsonCompatible(p) ==
    IF p.t = "dict" THEN \A f \in DOMAIN p.v : JsonCompatible(p.v[f])
    ELSE IF p.t = "list" THEN \A i \in 1..Len(p.v) : JsonCompatible(p.v[i])
    ELSE p.t \in {"None", "int", "float", "str", "bool"}

\* p has the keys and values of the fields of x, level by level
RECURSIVE SameFields(_, _)
SameFields(p, x) ==
    IF x.t \in {"obj", "dict"} THEN
        /\ p.t = "dict"
        /\ DOMAIN p.v = DOMAIN x.v
        /\ \A f \in DOMAIN x.v : SameFields(p.v[f], x.v[f])
    ELSE IF x.t = "list" THEN
        /\ p.t = "list"
        /\ Len(p.v) = Len(x.v)
        /\ \A i \in 1..Len(x.v) : SameFields(p.v[i], x.v[i])
    ELSE p = x

\* {"flags": [{"name": "f1", "enabled": true}, {"name": "f2", "enabled": false}],
\*  "login_count": 42}
ExampleDump ==
    PyDict([flags |-> PyList(<<
                PyDict([name |-> PyStr("f1"), enabled |-> PyBool(TRUE)]),
                PyDict([name |-> PyStr("f2"), enabled |-> PyBool(FALSE)]) >>),
            login_count |-> PyInt(42)])

\* the codec serializes with the hook of its base class
DefaultSerializer ==
    Serializer \in { Method("BasePydanticType", "_default_model_serializer"),
                     Method("BaseTypeAdapterType", "_default_serializer") }

\* C7: with the default serializer, binding a value other than None returns
\* a JSON-compatible structure with the keys and values of the value's fields;
\* the example instance encodes to the example dict.
C7_DefaultEncode ==
    (op.name = "process_bind_param" /\ op.arg # None /\ DefaultSerializer)
        => /\ result.kind = "return"
           /\ JsonCompatible(result.v)
           /\ SameFields(result.v, op.arg)
           /\ (op.arg = ExampleMeta => result.v = ExampleDump)

C7_Witness ==
    /\ op.name = "process_bind_param" /\ op.arg = ExampleMeta
    /\ DefaultSerializer /\ IsModelCodec
    /\ result = Return(ExampleDump)

\* the call of dialect.type_descriptor a load_dialect_impl made: its last call
DescriptorCall == calls[Len(calls)]

\* C8 as stated: an impl that is already an instance is what
\* load_dialect_impl returns.
C8_ReturnsImplDirectly ==
    (op.name = "load_dialect_impl" /\ impl.t = "engine") => result = Return(impl)

\* C8 amended: load_dialect_impl hands the class-level impl itself, never a
\* new instance of it, to dialect.type_descriptor when the impl is not
\* callable, and a no-argument instantiation of it when it is callable.
C8_ResolutionByShape ==
    op.name = "load_dialect_impl"
        => /\ DescriptorCall.fn = Lib("type_descriptor")
           /\ IF callable(impl)
              THEN /\ Len(calls) = 2
                   /\ calls[1].fn = impl /\ calls[1].arg = None
                   /\ calls[1].out = Return(DescriptorCall.arg)
                   /\ impl.t = "type" =>
                          DescriptorCall.arg = Engine(impl.v, nextId - 1)
              ELSE /\ Len(calls) = 1
                   /\ DescriptorCall.arg = impl

C8_Witness ==
    /\ op.name = "load_dialect_impl" /\ op.dialect = Dialect("postgresql")
    /\ impl = Engine("JSON", 0)
    /\ calls = <<Call(Lib("type_descriptor"), impl, result)>>
    /\ result = Return(Engine("postgresql.JSON", 0))

\* C9: each load_dialect_impl calls dialect.type_descriptor exactly once,
\* with impl() when impl is callable, and returns exactly what it returned.
C9_ThroughDialect ==
    op.name = "load_dialect_impl"
        => /\ Cardinality({i \in 1..Len(calls) : calls[i].fn = Lib("type_descriptor")}) = 1
           /\ result = DescriptorCall.out
           /\ callable(impl) =>
                  /\ calls[1].fn = impl
                  /\ Return(DescriptorCall.arg) = calls[1].out
           /\ op.dialect.t = "Mock" => result = Return(MockValue("type_descriptor"))

C9_Witness ==
    /\ op.name = "load_dialect_impl" /\ op.dialect = Mock("dialect")
    /\ impl = Mock("type_engine")
    /\ calls = << Call(impl, None, Return(MockValue("type_engine"))),
                  Call(Lib("type_descriptor"), MockValue("type_engine"), result) >>
    /\ result = Return(MockValue("type_descriptor"))

\* C10 as stated: two load_dialect_impl calls with the same dialect, at any
\* two points of the codec's life, return the same concrete column type.
C10_SameTypeAlways ==
    (op.name = "load_dialect_impl" /\ ref # Unset /\ ref.dialect = op.dialect)
        => ConcreteType(result.v) = ref.type

\* C10 amended: two load_dialect_impl calls with the same dialect return the
\* same concrete column type when the class-level impl is the same at both.
C10_SameTypeSameImpl ==
    (op.name = "load_dialect_impl" /\ ref # Unset /\ ref.dialect = op.dialect
        /\ ref.impl = impl)
        => ConcreteType(result.v) = ref.type

\* a second call for the same dialect, after an earlier one that was kept
C10_Witness ==
    /\ op.name = "load_dialect_impl" /\ op.dialect = Dialect("postgresql")
    /\ ref # Unset /\ ref.dialect = op.dialect /\ ref.impl = impl
    /\ impl = PyType("JSON")
    /\ result = Return(Engine("postgresql.JSON", 2))
    /\ ref.type = ConcreteType(Engine("postgresql.JSON", 1))

\* the instance of the class-level impl that load_dialect_impl resolves
ImplInstance == IF callable(impl) THEN Instantiate(impl, 0) ELSE impl

\* C11: render_item("type", c, ctx) for a codec c returns the string alembic
\* renders for c's storage type resolved for ctx's dialect (JSONB, MySQL JSON
\* and String impls give the three strings of the tests), never the name of
\* the codec class.
C11_RenderingDelegation ==
    (op.name = "render_item" /\ op.kind = "type" /\ op.arg = Codec(self))
        => /\ result = Return(repr_type(type_descriptor(op.dialect, ImplInstance)))
           /\ result = calls[Len(calls)].out
           /\ result.v # PyStr(self.cls)
           /\ op.dialect = Dialect("default") =>
                 /\ impl = PyType("postgresql.JSONB") =>
                        result.v = PyStr("postgresql.JSONB(astext_type=Text())")
                 /\ impl = PyType("mysql.JSON") => result.v = PyStr("mysql.JSON()")
                 /\ impl = PyType("String") => result.v = PyStr("sa.String()")

C11_Witness ==
    /\ op.name = "render_item" /\ op.kind = "type" /\ op.arg = Codec(self)
    /\ self.cls = "PydanticJSONB" /\ impl = PyType("postgresql.JSONB")
    /\ op.dialect = Dialect("default")
    /\ result = Return(PyStr("postgresql.JSONB(astext_type=Text())"))

\* C12: for a candidate that is not a codec, whatever the kind of item,
\* render_item returns the not-handled value, raises nothing and renders
\* nothing.
C12_NotHandled ==
    (op.name = "render_item" /\ op.arg # Codec(self))
        => (result = Return(NotHandled) /\ calls = <<>>)

C12_Witness ==
    /\ op.name = "render_item" /\ op.kind = "type"
    /\ op.arg = Engine("String", 0)
    /\ result = Return(NotHandled)

\* the codec deserializes with BasePydanticType's own default hook, the one
\* that reads self.type_adapter
BaseDefaultDecode ==
    IsModelCodec /\ Deserializer = Method("BasePydanticType", "_default_model_deserializer")

\* the step is a first use of the validator: a read of type_adapter, or a
\* decode of a non-None value through the base default hook, with nothing cached
FirstUse ==
    /\ IsModelCodec /\ type_adapter = Unset
    /\ \/ op'.name = "type_adapter"
       \/ op'.name \in {"process_result_value", "fetch"} /\ op'.arg # None /\ BaseDefaultDecode

\* C13: a model codec builds its validator at most once, on the first use
\* (first read of type_adapter or first default decode of a non-None value)
\* and not before: not at construction, not by an encode; every later use
\* gets the cached validator.
C13_LazyMemoization ==
    /\ [](op.name = "__init__" => (built = 0 /\ type_adapter = Unset))
    /\ [][ /\ built' <= 1
           /\ (built' # built) <=> FirstUse
           /\ (type_adapter' # type_adapter) <=> FirstUse
           /\ FirstUse =>
                 /\ type_adapter' = TypeAdapter(SchemaOf(self), 1)
                 /\ \E i \in DOMAIN calls' :
                        calls'[i] = Call(Lib("TypeAdapter"), PyType(SchemaOf(self).name),
                                         Return(type_adapter'))
           /\ ~FirstUse => \A i \in DOMAIN calls' : calls'[i].fn # Lib("TypeAdapter")
           /\ op'.name = "process_bind_param" => built' = built
           /\ (IsModelCodec /\ op'.name = "type_adapter") => result' = Return(type_adapter')
         ]_vars

\* a second read of type_adapter: the validator built by the first use
C13_Witness ==
    /\ IsModelCodec /\ built = 1
    /\ op.name = "type_adapter" /\ calls = <<>>
    /\ result = Return(type_adapter)

\* the same validator up to identity: a TypeAdapter of the codec's model type
ValidatorFor(s, ta) == ta.t = "TypeAdapter" /\ ta.v = s._pydantic_model_type

\* C14: callers racing on the validator cache of one model codec, with no
\* lock: whatever the interleaving, each caller's validator is one for the
\* codec's model type, each finished decode has the outcome a call on a
\* codec used by one caller has, and whichever validator ends up cached is a
\* validator for the model type.
C14_BenignRace ==
    /\ type_adapter # Unset => ValidatorFor(self, type_adapter)
    /\ built <= NThreads
    /\ \A t \in Threads :
          /\ threads[t].val # Unset => ValidatorFor(self, threads[t].val)
          /\ (threads[t].pc = "done" /\ threads[t].name = "type_adapter")
                => /\ threads[t].out.kind = "return"
                   /\ ValidatorFor(self, threads[t].out.v)
          /\ (threads[t].pc = "done" /\ threads[t].name = "process_result_value")
                => /\ threads[t].out = BasePydanticType_process_result_value(
                                           self, Unset, 0, threads[t].arg, None).out
                   /\ threads[t].out = BasePydanticType_process_result_value(
                                           self, TypeAdapter(UserMeta, 1), 1,
                                           threads[t].arg, None).out

\* two callers both missed the cache, each built a validator and decoded
\* with its own
C14_Witness ==
    /\ built = 2
    /\ threads[1].val # threads[2].val
    /\ \A t \in {1, 2} :
          /\ threads[t].pc = "done" /\ threads[t].name = "process_result_value"
          /\ threads[t].out.kind = "return" /\ threads[t].out.v # None
    /\ type_adapter = threads[1].val

\* the codec's class is one of the String-backed subclasses, which override
\* both hooks
StringBacked == self.cls \in {"PydanticString", "TypeAdapterString"}
\* the names of the two hooks of the codec's base class
SerializerHook == IF IsModelCodec THEN "_default_model_serializer" ELSE "_default_serializer"
DeserializerHook == IF IsModelCodec THEN "_default_model_deserializer" ELSE "_default_deserializer"
\* the class whose definition of the hooks the codec's class inherits
HookOwner == IF StringBacked THEN self.cls ELSE self.base

\* C15: without a serializer= / deserializer= argument, encode and decode go
\* through the hook as the codec's class defines it: the String-backed
\* subclasses dump to JSON text and validate from JSON text, and decode what
\* they encoded to an equal value; with the argument given, the argument is
\* called and the subclass's hook is not.
C15_HookPrecedence ==
    /\ (op.name = "process_bind_param" /\ op.arg # None)
          => /\ calls[1].fn = Or(args.serializer, Method(HookOwner, SerializerHook))
             /\ \A i \in DOMAIN calls :
                    calls[i].fn.t = "method" => args.serializer = None /\ calls[i].fn.owner = HookOwner
             /\ (StringBacked /\ args.serializer = None)
                    => (result.kind = "return" /\ result.v.t = "jsonstr"
                        /\ SameFields(result.v.v, op.arg))
             /\ args.serializer # None => result = Return(MockValue(args.serializer.v))
    /\ (Decoded /\ op.arg # None)
          => /\ calls[1].fn = Or(args.deserializer, Method(HookOwner, DeserializerHook))
             /\ \A i \in DOMAIN calls :
                    calls[i].fn.t = "method" => args.deserializer = None /\ calls[i].fn.owner = HookOwner
             /\ (StringBacked /\ args.deserializer = None /\ op.arg.t # "jsonstr")
                    => result = Raise(ValidationError)
             /\ args.deserializer # None => result = Return(MockValue(args.deserializer.v))
    /\ (op.name = "fetch" /\ StringBacked /\ NoOverrides /\ bound # None)
          => (op.arg.t = "jsonstr" /\ result.kind = "return" /\ PyEq(result.v, bound))

\* a PydanticString codec built without arguments decoded the JSON text it
\* had bound the example instance to
C15_Witness ==
    /\ op.name = "fetch" /\ self.cls = "PydanticString" /\ NoOverrides
    /\ bound = ExampleMeta
    /\ op.arg = JsonStr(ExampleDump)
    /\ calls[1].fn = Method("PydanticString", "_default_model_deserializer")
    /\ result = Return(ExampleMeta)

\* a TypeAdapterString codec given serializer= bound a value with it
C15_WitnessExplicit ==
    /\ op.name = "process_bind_param" /\ op.arg # None
    /\ self.cls = "TypeAdapterString" /\ args.serializer = Mock("serializer")
    /\ result = Return(MockValue("serializer"))

\* the calls a codec takes after construction
CodecCalls ==
    {"process_bind_param", "process_result_value", "fetch", "load_dialect_impl", "type_adapter"}

\* C16: no call on a codec, returning or raising, changes the attributes
\* __init__ assigned (schema reference, serializer, deserializer); only a
\* model codec's validator cache may come to differ, and not by an encode or
\* by load_dialect_impl; an adapter codec caches nothing and its type_adapter
\* is the adapter object __init__ was given.
C16_CodecImmutable ==
    [][ op'.name \in CodecCalls =>
          /\ self' = self
          /\ args' = args
          /\ op'.name \in {"process_bind_param", "load_dialect_impl"}
                => (type_adapter' = type_adapter /\ built' = built)
          /\ IsAdapterCodec =>
                /\ type_adapter' = Unset /\ built' = 0
                /\ self'._type_adapter = TypeAdapter(SchemaOf(self), 0)
                /\ op'.name = "type_adapter"
                      => (result' = Return(TypeAdapter(SchemaOf(self), 0)) /\ calls' = <<>>)
      ]_vars

\* an adapter codec's type_adapter was read: the object __init__ was given
C16_Witness ==
    /\ IsAdapterCodec /\ self.cls = "TypeAdapterJSON"
    /\ op.name = "type_adapter"
    /\ result = Return(self._type_adapter)
    /\ result.v.id = 0
    /\ type_adapter = Unset
====
